---- MODULE Spec2Model ----
(***************************************************************************)
(* The weighted rendezvous partition router of pytools                     *)
(* (pytools/dynamo/partitioning/partition_manager.py): construction of a   *)
(* PartitionManager and get_partition(key).                                *)
(*                                                                         *)
(* Numbers.  hashlib.md5 is a library function: it is modelled as a table  *)
(* `md5` that starts empty; the first time a string is hashed its digest   *)
(* is drawn from every digest and kept, so that md5 is one function for a  *)
(* whole behaviour.  A digest is kept at reduced width:                    *)
(* FracBits bits that survive the mask of _int_to_float (53 in the code)   *)
(* and one bit above them that the mask removes (75 in the code).  A float *)
(* is a fixed-point integer with PrecBits fractional bits: the float x is  *)
(* the integer x * 2^PrecBits, and division truncates.                     *)
(***************************************************************************)
EXTENDS Integers, Sequences, FiniteSets, TLC

VARIABLES
    md5,      \* the digest function so far: hashed string -> digest integer
    key,      \* the key this behaviour routes
    args,     \* router id -> the arguments the client built the router with
    router,   \* router id -> the PartitionManager object (or no object)
    call,     \* router id -> the last get_partition call made on it
    thread,   \* thread id -> the call the thread is making on router 1, and where it is
    frame,    \* frame id -> the local variables of one get_partition call
    flags,    \* retry class -> the attributes __retry__ and __backoff__ set on the class itself
    contexts, \* the no_retry() / no_backoff() contexts entered and not yet left, innermost last
    decorator, \* the RetryAndBackoff instance that decorates the function (or no object)
    wrapper,  \* the call of the decorated function: its arguments, its RetryState, where it is
    events,   \* what that call did so far: attempts, handle_exception calls, sleeps
    table,    \* the records of the DynamoDB table
    s3,       \* the backups in the S3 bucket: s3 key -> the data uploaded
    atBackup, \* whether backup_project ran, and the records the table held when it last did
    outcome,  \* how the last table operation ended
    sanitize, \* the last call of sanitize_key_pk: its inputs and how it ended
    db_vars,  \* the variables of the database session: name -> value
    sql_contexts, \* the setvars() / transaction() contexts entered and not yet left, innermost last
    _transaction_level, \* DatabaseAdapter._transaction_level
    sql_exit  \* the context left last: what it was and how it was left

routerVars == <<md5, key, args, router, call>>
threadVars == <<thread, frame>>
retryVars == <<flags, contexts, decorator, wrapper, events>>
storeVars == <<table, s3, atBackup, outcome>>
recordVars == <<sanitize>>
sqlVars == <<db_vars, sql_contexts, _transaction_level, sql_exit>>
vars == <<md5, key, args, router, call, thread, frame,
          flags, contexts, decorator, wrapper, events, table, s3, atBackup, outcome,
          sanitize, db_vars, sql_contexts, _transaction_level, sql_exit>>

----------------------------------------------------------------------------
(* Bounds *)

FracBits == 2
PrecBits == 12
MaxWeight == 2

Names == {"a", "b", "c"}
Keys == {"", "k"}
Weights == (0 - 1)..MaxWeight
SeedStrings == {"a", "s"}
RouterIds == {1, 2}
NumThreads == 2
Threads == 1..NumThreads

----------------------------------------------------------------------------
(* Python values *)

PyNone == [py |-> "None"]
EmptyDict == [n \in {} |-> 0]

\* every dict with keys among K and values among V
Dicts(K, V) == UNION {[D -> V] : D \in SUBSET K}

\* dict.get(k, default)
DictGet(d, k, default) == IF k \in DOMAIN d THEN d[k] ELSE default

\* the orders in which a set can be iterated: its sequences without repetition
Orders(S) == {o \in [1..Cardinality(S) -> S] : \A i, j \in DOMAIN o : o[i] = o[j] => i = j}

Returned(v, n) == [kind |-> "return", value |-> v, hashed |-> n]
Raised(e, n) == [kind |-> "raise", value |-> e, hashed |-> n]

----------------------------------------------------------------------------
(* Fixed-point floats *)

One == 2 ^ PrecBits

RECURSIVE FloorLog2(_)
FloorLog2(n) == IF n < 2 THEN 0 ELSE 1 + FloorLog2(n \div 2)

\* the `bits` fractional bits of log2 of the mantissa m, One <= m < 2 * One
RECURSIVE Log2Frac(_, _)
Log2Frac(m, bits) ==
    IF bits = 0 THEN 0
    ELSE LET sq == (m * m) \div One
         IN  IF sq >= 2 * One
             THEN 2 ^ (bits - 1) + Log2Frac(sq \div 2, bits - 1)
             ELSE Log2Frac(sq, bits - 1)

\* log2 of the float x, 0 < x < 1, as a float (it is negative)
Log2(x) ==
    LET e == FloorLog2(x)
    IN  (e - PrecBits) * One + Log2Frac((x * One) \div (2 ^ e), PrecBits)

\* the natural logarithm of every float x, 0 < x < 1; ln 2 = 253/365
LogTable == [x \in 1..(One - 1) |-> 0 - (((0 - Log2(x)) * 253) \div 365)]

\* math.log(x): ValueError ("math domain error") for x <= 0
math_log(x) ==
    IF x <= 0 THEN [ok |-> FALSE, exc |-> "ValueError"]
    ELSE [ok |-> TRUE, value |-> LogTable[x]]

----------------------------------------------------------------------------
(* Partition, PartitionManager *)

DEFAULT_WEIGHT == 1

Partition(name, weight, seed) == [name |-> name, weight |-> weight, seed |-> seed]

NoObject == [state |-> "none"]
NoArgs == [given |-> FALSE]

\* _generate_partitions without its test for an empty partition_names
_generate_partitions_unchecked(partition_names, partition_weights, partition_seeds, order) ==
    [ok |-> TRUE,
     value |-> [i \in DOMAIN order |->
                   Partition(order[i],
                             DictGet(partition_weights, order[i], DEFAULT_WEIGHT),
                             DictGet(partition_seeds, order[i], order[i]))]]

\* _generate_partitions reading the seed from partition_weights' keys only:
\* a supplied seed is used only for a name that also has a supplied weight
_generate_partitions_seed_by_weight(partition_names, partition_weights, partition_seeds, order) ==
    IF partition_names = {}
    THEN [ok |-> FALSE, exc |-> "PartitionManagerError"]
    ELSE [ok |-> TRUE,
          value |-> [i \in DOMAIN order |->
                        Partition(order[i],
                                  DictGet(partition_weights, order[i], DEFAULT_WEIGHT),
                                  IF order[i] \in DOMAIN partition_weights
                                  THEN DictGet(partition_seeds, order[i], order[i])
                                  ELSE order[i])]]

\* PartitionManager._generate_partitions, iterating partition_names in `order`
_generate_partitions(partition_names, partition_weights, partition_seeds, order) ==
    IF partition_names = {}
    THEN [ok |-> FALSE, exc |-> "PartitionManagerError"]
    ELSE [ok |-> TRUE,
          value |-> [i \in DOMAIN order |->
                        Partition(order[i],
                                  DictGet(partition_weights, order[i], DEFAULT_WEIGHT),
                                  DictGet(partition_seeds, order[i], order[i]))]]

\* PartitionManager.__init__: the object, or the exception that leaves no object
PartitionManager(partition_names, partition_weights, partition_seeds, order) ==
    LET weights == IF partition_weights # PyNone THEN partition_weights ELSE EmptyDict
        seeds == IF partition_seeds # PyNone THEN partition_seeds ELSE EmptyDict
        gen == _generate_partitions(partition_names, weights, seeds, order)
    IN  IF gen.ok
        THEN [state |-> "built",
              partition_names |-> partition_names,
              partition_weights |-> weights,
              partition_seeds |-> seeds,
              _partitions |-> gen.value]
        ELSE [state |-> "raised", exc |-> gen.exc]

\* the digests: every pattern of the FracBits bits under the mask, and one digest
\* with a bit above the mask
Digests == 0..(2 ^ FracBits)

\* PartitionManager._hash: md5 of seed followed by key, as an integer;
\* `digest` is the function hashlib.md5 computes
_hash(digest, seed, k) == digest[seed \o k]

\* PartitionManager._int_to_float: the bits under the mask over 2^FracBits
_int_to_float(value) == ((value % (2 ^ FracBits)) * One) \div (2 ^ FracBits)

\* PartitionManager._compute_weighted_score
_compute_weighted_score(digest, partition, k) ==
    LET hash_key == _hash(digest, partition.seed, k)
        hash_f == _int_to_float(hash_key)
        log == math_log(hash_f)
    IN  IF ~log.ok THEN log
        ELSE LET score == (One * One) \div (0 - log.value)
             IN  [ok |-> TRUE, value |-> partition.weight * score]

\* the loop with `score >= highest_score`: the last of the highest wins
RECURSIVE ChampionLoopLastWins(_, _, _, _, _, _)
ChampionLoopLastWins(digest, partitions, k, i, highest_score, champion) ==
    IF i > Len(partitions)
    THEN IF champion = PyNone
         THEN Raised("AssertionError", i - 1)
         ELSE Returned(champion.name, i - 1)
    ELSE LET score == _compute_weighted_score(digest, partitions[i], k)
         IN  IF ~score.ok THEN Raised(score.exc, i)
             ELSE IF score.value >= highest_score
                  THEN ChampionLoopLastWins(digest, partitions, k, i + 1, score.value, partitions[i])
                  ELSE ChampionLoopLastWins(digest, partitions, k, i + 1, highest_score, champion)

\* the loop without `highest_score = score`: every score is compared with -1.0
RECURSIVE ChampionLoopKeepsBar(_, _, _, _, _, _)
ChampionLoopKeepsBar(digest, partitions, k, i, highest_score, champion) ==
    IF i > Len(partitions)
    THEN IF champion = PyNone
         THEN Raised("AssertionError", i - 1)
         ELSE Returned(champion.name, i - 1)
    ELSE LET score == _compute_weighted_score(digest, partitions[i], k)
         IN  IF ~score.ok THEN Raised(score.exc, i)
             ELSE IF score.value > highest_score
                  THEN ChampionLoopKeepsBar(digest, partitions, k, i + 1, highest_score, partitions[i])
                  ELSE ChampionLoopKeepsBar(digest, partitions, k, i + 1, highest_score, champion)

\* the loop of PartitionManager.get_partition from partition i on
RECURSIVE ChampionLoop(_, _, _, _, _, _)
ChampionLoop(digest, partitions, k, i, highest_score, champion) ==
    IF i > Len(partitions)
    THEN IF champion = PyNone
         THEN Raised("AssertionError", i - 1)
         ELSE Returned(champion.name, i - 1)
    ELSE LET score == _compute_weighted_score(digest, partitions[i], k)
         IN  IF ~score.ok THEN Raised(score.exc, i)
             ELSE IF score.value > highest_score
                  THEN ChampionLoop(digest, partitions, k, i + 1, score.value, partitions[i])
                  ELSE ChampionLoop(digest, partitions, k, i + 1, highest_score, champion)

\* no fast path: every router scores its partitions
NeverOnePartition(self) == FALSE

\* the test of the fast path of get_partition
OnePartition(self) == Len(self._partitions) = 1

\* PartitionManager.get_partition
get_partition(digest, self, k) ==
    IF OnePartition(self)
    THEN Returned(self._partitions[1].name, 0)
    ELSE ChampionLoop(digest, self._partitions, k, 1, 0 - One, PyNone)

\* PartitionManager.get_all_partition_names
get_all_partition_names(self) == [i \in DOMAIN self._partitions |-> self._partitions[i].name]

\* PartitionManager.get_partition_count
get_partition_count(self) == Len(self._partitions)

\* PartitionManager.get_partition_details: the Partition object the table
\* holds under the key partition_name (its place `ref` in the table and its
\* attributes), or None.  A key of the table is the name its Partition was
\* constructed with.
get_partition_details(self, partition_name) ==
    IF \E i \in DOMAIN self._partitions : self._partitions[i].name = partition_name
    THEN LET i == CHOOSE j \in DOMAIN self._partitions :
                      self._partitions[j].name = partition_name
         IN  [ref |-> i, obj |-> self._partitions[i]]
    ELSE PyNone

\* Partition.__str__
Partition__str__(self) == <<"Partition=[name=", self.name, ", seed=", self.seed, ", weight=", self.weight, "]">>

\* PartitionManager.get_partitions_str
get_partitions_str(self) == [i \in DOMAIN self._partitions |-> Partition__str__(self._partitions[i])]

----------------------------------------------------------------------------
(* Actions *)

NoCall == [kind |-> "none"]

\* r = PartitionManager(partition_names, partition_weights, partition_seeds)
Construct(r, partition_names, partition_weights, partition_seeds) ==
    /\ router[r] = NoObject
    /\ args' = [args EXCEPT ![r] = [given |-> TRUE,
                                    partition_names |-> partition_names,
                                    partition_weights |-> partition_weights,
                                    partition_seeds |-> partition_seeds]]
    /\ \E order \in Orders(partition_names) :
          router' = [router EXCEPT ![r] =
              PartitionManager(partition_names, partition_weights, partition_seeds, order)]
    /\ UNCHANGED <<md5, key, call>>
    /\ UNCHANGED <<threadVars, retryVars, storeVars, recordVars, sqlVars>>

\* the strings get_partition(k) on `self` hashes that md5 has no digest for yet
Unhashed(self, k) ==
    IF OnePartition(self) THEN {}
    ELSE {self._partitions[i].seed \o k : i \in DOMAIN self._partitions} \ DOMAIN md5

\* router[r].get_partition(key)
GetPartition(r) ==
    /\ router[r].state = "built"
    /\ \E fresh \in [Unhashed(router[r], key) -> Digests] :
          /\ md5' = [s \in DOMAIN md5 \cup DOMAIN fresh |->
                        IF s \in DOMAIN md5 THEN md5[s] ELSE fresh[s]]
          /\ call' = [call EXCEPT ![r] = get_partition(md5', router[r], key)]
    /\ UNCHANGED <<key, args, router>>
    /\ UNCHANGED <<threadVars, retryVars, storeVars, recordVars, sqlVars>>

\* a read accessor of router[r] is called
Accessor(r) ==
    /\ router[r].state = "built"
    /\ \/ call' = [call EXCEPT ![r] = Returned(get_all_partition_names(router[r]), 0)]
       \/ call' = [call EXCEPT ![r] = Returned(get_partition_count(router[r]), 0)]
       \/ call' = [call EXCEPT ![r] = Returned(get_partitions_str(router[r]), 0)]
       \/ \E n \in Names :
             call' = [call EXCEPT ![r] = Returned(get_partition_details(router[r], n), 0)]
    /\ UNCHANGED <<md5, key, args, router>>
    /\ UNCHANGED <<threadVars, retryVars, storeVars, recordVars, sqlVars>>

\* the client changes a collection it passed to the constructor of router[r]:
\* __init__ keeps the collections themselves, not copies (lines 34-36)
ClientMutatesArguments(r) ==
    /\ router[r].state = "built"
    /\ \/ router' = [router EXCEPT ![r].partition_names = @ \cup {"c"}]
       \/ router' = [router EXCEPT ![r].partition_names = @ \ {"a"}]
       \/ /\ args[r].partition_weights # PyNone
          /\ router' = [router EXCEPT ![r].partition_weights = ("b" :> MaxWeight) @@ @]
       \/ /\ args[r].partition_seeds # PyNone
          /\ router' = [router EXCEPT ![r].partition_seeds = ("a" :> "s") @@ @]
    /\ UNCHANGED <<md5, key, args, call>>
    /\ UNCHANGED <<threadVars, retryVars, storeVars, recordVars, sqlVars>>

\* the client assigns to an attribute of a Partition it obtained from
\* router[r].get_partition_details(n)
ClientMutatesPartition(r) ==
    /\ router[r].state = "built"
    /\ \E n \in Names :
          LET p == get_partition_details(router[r], n)
          IN  /\ p # PyNone
              /\ \/ router' = [router EXCEPT ![r]._partitions[p.ref].weight = 0]
                 \/ router' = [router EXCEPT ![r]._partitions[p.ref].seed = "b"]
    /\ UNCHANGED <<md5, key, args, call>>
    /\ UNCHANGED <<threadVars, retryVars, storeVars, recordVars, sqlVars>>

----------------------------------------------------------------------------
(* Threads calling one shared router, router[1]; a step of a thread is one
   pass of the loop of get_partition *)

Idle == [pc |-> "idle"]
NoFrame == [highest_score |-> 0, champion |-> PyNone]

\* one frame for every call: highest_score and champion kept on the instance
SharedFrame(t) == 1

\* the frame that holds the local variables highest_score and champion of the
\* call thread t makes: every call has its own
Frame(t) == t

\* thread t calls get_partition(k): the fast path, or the locals are set up
CallGetPartition(t, k) ==
    /\ router[1].state = "built"
    /\ thread[t].pc = "idle"
    /\ IF OnePartition(router[1])
       THEN /\ thread' = [thread EXCEPT ![t] =
                   [pc |-> "done", op |-> "get_partition", key |-> k,
                    result |-> Returned(router[1]._partitions[1].name, 0)]]
            /\ UNCHANGED frame
       ELSE /\ thread' = [thread EXCEPT ![t] =
                   [pc |-> "loop", op |-> "get_partition", key |-> k, i |-> 1]]
            /\ frame' = [frame EXCEPT ![Frame(t)] =
                   [highest_score |-> 0 - One, champion |-> PyNone]]
    /\ UNCHANGED <<routerVars, retryVars, storeVars, recordVars, sqlVars>>

\* thread t scores the next partition of the table and compares the score
ScorePartition(t) ==
    /\ thread[t].pc = "loop"
    /\ thread[t].i <= Len(router[1]._partitions)
    /\ LET partition == router[1]._partitions[thread[t].i]
           string == partition.seed \o thread[t].key
       IN  \E d \in (IF string \in DOMAIN md5 THEN {md5[string]} ELSE Digests) :
             /\ md5' = (string :> d) @@ md5
             /\ LET score == _compute_weighted_score(md5', partition, thread[t].key)
                IN  IF ~score.ok
                    THEN /\ thread' = [thread EXCEPT ![t] =
                                [pc |-> "done", op |-> "get_partition", key |-> thread[t].key,
                                 result |-> Raised(score.exc, thread[t].i)]]
                         /\ frame' = [frame EXCEPT ![Frame(t)] = NoFrame]
                    ELSE /\ thread' = [thread EXCEPT ![t].i = @ + 1]
                         /\ IF score.value > frame[Frame(t)].highest_score
                            THEN frame' = [frame EXCEPT ![Frame(t)] =
                                    [highest_score |-> score.value, champion |-> partition]]
                            ELSE UNCHANGED frame
    /\ UNCHANGED <<key, args, router, call>>
    /\ UNCHANGED <<retryVars, storeVars, recordVars, sqlVars>>

\* thread t leaves the loop: assert champion; return champion.name; the
\* locals of the call are gone
ReturnChampion(t) ==
    /\ thread[t].pc = "loop"
    /\ thread[t].i > Len(router[1]._partitions)
    /\ thread' = [thread EXCEPT ![t] =
           [pc |-> "done", op |-> "get_partition", key |-> thread[t].key,
            result |-> IF frame[Frame(t)].champion = PyNone
                       THEN Raised("AssertionError", thread[t].i - 1)
                       ELSE Returned(frame[Frame(t)].champion.name, thread[t].i - 1)]]
    /\ frame' = [frame EXCEPT ![Frame(t)] = NoFrame]
    /\ UNCHANGED <<routerVars, retryVars, storeVars, recordVars, sqlVars>>

\* what the read accessor `op` of `self` returns
AccessorValue(self, op) ==
    CASE op = "get_all_partition_names" -> get_all_partition_names(self)
      [] op = "get_partition_count" -> get_partition_count(self)
      [] op = "get_partitions_str" -> get_partitions_str(self)

\* thread t calls a read accessor of the router
CallAccessor(t) ==
    /\ router[1].state = "built"
    /\ thread[t].pc = "idle"
    /\ \E op \in {"get_all_partition_names", "get_partition_count", "get_partitions_str"} :
          thread' = [thread EXCEPT ![t] =
              [pc |-> "done", op |-> op, key |-> "",
               result |-> Returned(AccessorValue(router[1], op), 0)]]
    /\ UNCHANGED frame
    /\ UNCHANGED <<routerVars, retryVars, storeVars, recordVars, sqlVars>>

----------------------------------------------------------------------------
(* Exceptions (pytools/aws/boto3_errors.py, retry_backoff_boto3.py, builtins) *)

\* the base class of every exception class the model raises
ExceptionParent ==
    [c \in {"Exception", "KeyboardInterrupt", "ValueError", "OSError", "ClientError",
            "ServiceError", "ThrottlingException", "TooManyRequestsException",
            "ValidationError", "BatchUnprocessedItemsError"} |->
        CASE c \in {"Exception", "KeyboardInterrupt"} -> "BaseException"
          [] c \in {"ValueError", "OSError", "ClientError", "BatchUnprocessedItemsError"} -> "Exception"
          [] c = "ServiceError" -> "ClientError"
          [] OTHER -> "ServiceError"]

\* the class c and its base classes
RECURSIVE ExceptionMro(_)
ExceptionMro(c) == IF c \in DOMAIN ExceptionParent THEN {c} \cup ExceptionMro(ExceptionParent[c]) ELSE {c}

\* isinstance(exc, classes), the test of `except classes as e`
IsInstance(exc, classes) == \E c \in classes : c \in ExceptionMro(exc.cls)

\* boto3_errors.ERRORS: the error codes that have a proxy class
ERRORS == {"ThrottlingException", "TooManyRequestsException", "ValidationError"}

\* boto3_errors.translate_boto3_errors: a ClientError whose code has a proxy
\* class is raised again as that class; every other exception as it is
translate_boto3_errors(exc) ==
    IF IsInstance(exc, {"ClientError"}) /\ exc.code \in ERRORS
    THEN [cls |-> exc.code, code |-> exc.code]
    ELSE exc

----------------------------------------------------------------------------
(* RetryAndBackoff and its subclasses (pytools/common/retry_backoff.py,
   pytools/aws/retry_backoff_boto3.py) *)

NOT_SET == [py |-> "NOT_SET"]
PyInt(n) == [py |-> "int", value |-> n]
default_num_tries == 5

RetryClasses == {"RetryAndBackoff", "RetryBackoffReturnNone", "RetryAndBackoffBoto3"}

\* the class a retry class derives from
RetryParent == [c \in RetryClasses \ {"RetryAndBackoff"} |-> "RetryAndBackoff"]

\* the attributes each class has itself: __retry__ and __backoff__ are
\* defined by RetryAndBackoff only
ClassAttributes ==
    [c \in RetryClasses |->
        IF c = "RetryAndBackoff"
        THEN [__retry__ |-> TRUE, __backoff__ |-> TRUE]
        ELSE EmptyDict]

\* attribute lookup cls.<flag> (and self.<flag> on an instance of cls): the
\* attribute of the class if it has one, else of its base class
RECURSIVE GetFlag(_, _, _)
GetFlag(attrs, cls, flag) ==
    IF flag \in DOMAIN attrs[cls] THEN attrs[cls][flag]
    ELSE GetFlag(attrs, RetryParent[cls], flag)

\* cls.<flag> = value: the attribute is set on cls itself
SetFlag(attrs, cls, flag, value) == [attrs EXCEPT ![cls] = (flag :> value) @@ @]

\* cls.default_exceptions
default_exceptions(cls) ==
    IF cls = "RetryAndBackoffBoto3"
    THEN {"BatchUnprocessedItemsError", "ThrottlingException", "TooManyRequestsException"}
    ELSE {"Exception"}

\* cls.default_exceptions_to_raise
default_exceptions_to_raise(cls) == {}

\* cls.default_fallback_value
default_fallback_value(cls) == IF cls = "RetryBackoffReturnNone" THEN PyNone ELSE NOT_SET

Max(a, b) == IF a >= b THEN a ELSE b

\* __init__ without the lower limit of one try
RetryAndBackoff__init__unlimited(cls, num_tries, exceptions_to_retry, exceptions_to_raise, fallback_value) ==
    [state |-> "built",
     cls |-> cls,
     num_tries |-> num_tries,
     max_tries |-> IF num_tries # PyNone THEN num_tries.value ELSE default_num_tries,
     _exceptions_to_retry |-> IF exceptions_to_retry # {}
                              THEN exceptions_to_retry ELSE default_exceptions(cls),
     _exceptions_to_raise |-> IF exceptions_to_raise # {}
                              THEN exceptions_to_raise ELSE default_exceptions_to_raise(cls),
     _fallback_value |-> IF fallback_value = NOT_SET
                         THEN default_fallback_value(cls) ELSE fallback_value]

\* RetryAndBackoff.__init__ (inherited by the subclasses): the instance.
\* num_tries is None or PyInt(n); a tuple of exception classes is a set, and
\* the empty set stands for both None and (), which `or` treats alike.  The
\* field num_tries keeps the argument as it was passed, for the claims.
RetryAndBackoff__init__(cls, num_tries, exceptions_to_retry, exceptions_to_raise, fallback_value) ==
    [state |-> "built",
     cls |-> cls,
     num_tries |-> num_tries,
     max_tries |-> Max(IF num_tries # PyNone THEN num_tries.value ELSE default_num_tries, 1),
     _exceptions_to_retry |-> IF exceptions_to_retry # {}
                              THEN exceptions_to_retry ELSE default_exceptions(cls),
     _exceptions_to_raise |-> IF exceptions_to_raise # {}
                              THEN exceptions_to_raise ELSE default_exceptions_to_raise(cls),
     _fallback_value |-> IF fallback_value = NOT_SET
                         THEN default_fallback_value(cls) ELSE fallback_value]

\* cls.translate_errors: what an exception raised inside the context leaves it as
translate_errors(cls, exc) ==
    IF cls = "RetryAndBackoffBoto3" THEN translate_boto3_errors(exc) ELSE exc

\* RetryState(...): the state of one call of the wrapper
RetryState(method_args, method_kwargs, tries_remaining) ==
    [method_args |-> method_args,
     method_kwargs |-> method_kwargs,
     tries_remaining |-> tries_remaining,
     exception |-> PyNone]

\* args[1:]
Rest(tuple) == IF Len(tuple) = 0 THEN <<>> ELSE Tail(tuple)

\* cls.handle_exception(exc, state): the state it leaves.  RetryAndBackoffBoto3
\* records the unprocessed items and the responses in the state; the other
\* classes do nothing.  A previous_responses that is None is one that is not
\* passed: both leave the list empty.
handle_exception(cls, exc, state) ==
    IF cls = "RetryAndBackoffBoto3" /\ IsInstance(exc, {"BatchUnprocessedItemsError"})
    THEN LET given == DictGet(state.method_kwargs, "previous_responses", <<>>)
             previous_responses ==
                 Append(IF DOMAIN state.method_kwargs # {} /\ given # <<>> THEN given ELSE <<>>,
                        exc.response)
         IN  [state EXCEPT !.method_args = <<exc.unprocessed_items>> \o Rest(state.method_args),
                           !.method_kwargs = "previous_responses" :> previous_responses]
    ELSE state

\* _fallback without the test for NOT_SET: the fallback value is returned
_fallback_unchecked(self, state) == [kind |-> "return", value |-> self._fallback_value]

\* self._fallback(state): the fallback value, or the last exception
_fallback(self, state) ==
    IF self._fallback_value = NOT_SET /\ state.exception # PyNone
    THEN [kind |-> "raise", value |-> state.exception]
    ELSE [kind |-> "return", value |-> self._fallback_value]

\* cls.exponential_backoff(attempt_number): random.uniform(2 ** (attempt_number - 1),
\* 2 ** attempt_number), a delay drawn between the two
exponential_backoff(attempt_number) ==
    [uniform |-> <<2 ^ (attempt_number - 1), 2 ^ attempt_number>>]

\* cls.backoff(attempt_number), the _backoff_func of a decorator built without one
cls_backoff(attempt_number) == exponential_backoff(attempt_number)

\* the events of a call
AttemptEvent(args_, kwargs, o) == [ev |-> "attempt", args |-> args_, kwargs |-> kwargs, outcome |-> o]
HandleEvent(exc) == [ev |-> "handle_exception", exc |-> exc]
SleepEvent(attempt_number) ==
    [ev |-> "sleep", attempt_number |-> attempt_number, delay |-> cls_backoff(attempt_number)]

\* what one invocation of the decorated function does
FReturns(v) == [kind |-> "return", value |-> v]
FRaises(exc) == [kind |-> "raise", exc |-> exc]

\* @cls(num_tries, exceptions_to_retry, exceptions_to_raise, fallback_value)
Decorate(cls, num_tries, exceptions_to_retry, exceptions_to_raise, fallback_value) ==
    /\ decorator = NoObject
    /\ decorator' = RetryAndBackoff__init__(cls, num_tries, exceptions_to_retry,
                                            exceptions_to_raise, fallback_value)
    /\ UNCHANGED <<flags, contexts, wrapper, events>>
    /\ UNCHANGED <<routerVars, threadVars, storeVars, recordVars, sqlVars>>

\* with cls.no_retry(): / with cls.no_backoff(): is entered
EnterContext(cls, flag) ==
    /\ wrapper.pc = "idle"
    /\ contexts' = Append(contexts, [cls |-> cls, flag |-> flag, prev |-> GetFlag(flags, cls, flag)])
    /\ flags' = SetFlag(flags, cls, flag, FALSE)
    /\ UNCHANGED <<decorator, wrapper, events>>
    /\ UNCHANGED <<routerVars, threadVars, storeVars, recordVars, sqlVars>>

\* the innermost context is left, normally or by an exception (finally:)
ExitContext ==
    /\ wrapper.pc = "idle"
    /\ contexts # <<>>
    /\ LET c == contexts[Len(contexts)]
       IN  /\ flags' = SetFlag(flags, c.cls, c.flag, c.prev)
           /\ contexts' = SubSeq(contexts, 1, Len(contexts) - 1)
    /\ UNCHANGED <<decorator, wrapper, events>>
    /\ UNCHANGED <<routerVars, threadVars, storeVars, recordVars, sqlVars>>

\* the decorated function is called: wrapper(*args, **kwargs) sets up its state
CallWrapper(args_, kwargs) ==
    /\ decorator.state = "built"
    /\ wrapper.pc = "idle"
    /\ wrapper' = [pc |-> "loop", args |-> args_, kwargs |-> kwargs,
                   state |-> RetryState(args_, kwargs,
                                 IF GetFlag(flags, decorator.cls, "__retry__")
                                 THEN decorator.max_tries ELSE 1),
                   result |-> PyNone]
    /\ events' = <<>>
    /\ UNCHANGED <<flags, contexts, decorator>>
    /\ UNCHANGED <<routerVars, threadVars, storeVars, recordVars, sqlVars>>

\* one pass of the loop of the wrapper with raise before retry tested last:
\* an exception in both tuples is retried
PassRetryFirst(self, w, backoff, o) ==
    LET attempt == AttemptEvent(w.args, w.kwargs, o)
    IN  IF o.kind = "return"
        THEN [wrapper |-> [w EXCEPT !.pc = "done", !.result = [kind |-> "return", value |-> o.value]],
              events |-> <<attempt>>]
        ELSE LET e == translate_errors(self.cls, o.exc)
             IN  IF IsInstance(e, self._exceptions_to_retry)
                 THEN LET st == handle_exception(self.cls, e,
                                    [w.state EXCEPT !.tries_remaining = @ - 1, !.exception = e])
                      IN  [wrapper |-> [w EXCEPT !.state = st],
                           events |-> <<attempt, HandleEvent(e)>> \o
                               (IF backoff /\ st.tries_remaining > 0
                                THEN <<SleepEvent(self.max_tries - st.tries_remaining)>>
                                ELSE <<>>)]
                 ELSE IF IsInstance(e, self._exceptions_to_raise)
                 THEN LET st == handle_exception(self.cls, e,
                                    [w.state EXCEPT !.tries_remaining = 0, !.exception = e])
                      IN  [wrapper |-> [w EXCEPT !.state = st],
                           events |-> <<attempt, HandleEvent(e)>>]
                 ELSE [wrapper |-> [w EXCEPT !.pc = "done", !.result = [kind |-> "raise", value |-> e]],
                       events |-> <<attempt>>]

\* one pass of the loop of the wrapper (lines 260-283) in which the function
\* does `o`: the wrapper and the events that follow.  `backoff` is
\* self.__backoff__.
Pass(self, w, backoff, o) ==
    LET attempt == AttemptEvent(w.args, w.kwargs, o)
    IN  IF o.kind = "return"
        THEN [wrapper |-> [w EXCEPT !.pc = "done", !.result = [kind |-> "return", value |-> o.value]],
              events |-> <<attempt>>]
        ELSE LET e == translate_errors(self.cls, o.exc)
             IN  IF IsInstance(e, self._exceptions_to_raise)
                 THEN LET st == handle_exception(self.cls, e,
                                    [w.state EXCEPT !.tries_remaining = 0, !.exception = e])
                      IN  [wrapper |-> [w EXCEPT !.state = st],
                           events |-> <<attempt, HandleEvent(e)>>]
                 ELSE IF IsInstance(e, self._exceptions_to_retry)
                 THEN LET st == handle_exception(self.cls, e,
                                    [w.state EXCEPT !.tries_remaining = @ - 1, !.exception = e])
                      IN  [wrapper |-> [w EXCEPT !.state = st],
                           events |-> <<attempt, HandleEvent(e)>> \o
                               (IF backoff /\ st.tries_remaining > 0
                                THEN <<SleepEvent(self.max_tries - st.tries_remaining)>>
                                ELSE <<>>)]
                 ELSE [wrapper |-> [w EXCEPT !.pc = "done", !.result = [kind |-> "raise", value |-> e]],
                       events |-> <<attempt>>]

\* the wrapper invokes the function, which does `o`
Attempt(o) ==
    /\ wrapper.pc = "loop"
    /\ wrapper.state.tries_remaining > 0
    /\ LET pass == Pass(decorator, wrapper, GetFlag(flags, decorator.cls, "__backoff__"), o)
       IN  /\ wrapper' = pass.wrapper
           /\ events' = events \o pass.events
    /\ UNCHANGED <<flags, contexts, decorator>>
    /\ UNCHANGED <<routerVars, threadVars, storeVars, recordVars, sqlVars>>

\* the loop is over: return self._fallback(state)
Fallback ==
    /\ wrapper.pc = "loop"
    /\ wrapper.state.tries_remaining <= 0
    /\ wrapper' = [wrapper EXCEPT !.pc = "done", !.result = _fallback(decorator, wrapper.state)]
    /\ UNCHANGED <<flags, contexts, decorator, events>>
    /\ UNCHANGED <<routerVars, threadVars, storeVars, recordVars, sqlVars>>

----------------------------------------------------------------------------
(* PartitionedDynamoTableBase and BackupManager
   (pytools/dynamo/base/partitioned_dynamo_table_base.py,
    pytools/dynamo/backup_utility/backup_manager.py) *)

\* the values of record attributes
Str(v) == [py |-> "str", s |-> v]
PySet(members) == [py |-> "set", members |-> members]
PyList(elems) == [py |-> "list", elems |-> elems]

\* a table manager of project "p" with two partitions
table_name == "records"
partition_names == <<"p_1", "p_2">>

\* the partition keys a caller passes: the partitions and one of another project
PartitionKeys == {"p_1", "p_2", "q_1"}

\* the sort keys of the records of the manager, in ascending order; all of
\* them start with its sort_key_prefix
SortKeys == <<"r#1", "r#2">>

\* what a record holds besides its keys
Bodies == {"name" :> Str("x"), "name" :> Str("y") @@ "tags" :> PySet({1, 2})}

\* the record of a partition with a sort key and a body
Record(pk, sk, body) == ("pk" :> Str(pk)) @@ ("sk" :> Str(sk)) @@ body

\* f"{self.table_name}-{partition_key}.yml"
S3Key(partition_key) == [table_name |-> table_name, partition_key |-> partition_key]

\* sorted(value) for a set of integers
RECURSIVE sorted(_)
sorted(S) ==
    IF S = {} THEN <<>>
    ELSE LET m == CHOOSE x \in S : \A y \in S : x <= y
         IN  <<m>> \o sorted(S \ {m})

\* f"{key}__set", and the keys that end with "__set"
SetKey == [tags |-> "tags__set", name |-> "name__set", pk |-> "pk__set", sk |-> "sk__set"]
EndsWithSet(k) == \E b \in DOMAIN SetKey : SetKey[b] = k
StripSet(k) == CHOOSE b \in DOMAIN SetKey : SetKey[b] = k

\* BackupManager._annotate_data: a set becomes the sorted list of its
\* members under the key with "__set" added
_annotate_data(data) ==
    LET Key(k) == IF data[k].py = "set" THEN SetKey[k] ELSE k
        from(a) == CHOOSE k \in DOMAIN data : Key(k) = a
    IN  [a \in {Key(k) : k \in DOMAIN data} |->
            IF data[from(a)].py = "set" THEN PyList(sorted(data[from(a)].members))
            ELSE data[from(a)]]

\* BackupManager._deannotate_data: the value of a key that ends with "__set"
\* becomes a set under the key without it
_deannotate_data(data) ==
    LET Key(a) == IF EndsWithSet(a) THEN StripSet(a) ELSE a
        from(k) == CHOOSE a \in DOMAIN data : Key(a) = k
    IN  [k \in {Key(a) : a \in DOMAIN data} |->
            IF EndsWithSet(from(k)) THEN PySet({data[from(k)].elems[i] : i \in DOMAIN data[from(k)].elems})
            ELSE data[from(k)]]

\* BackupManager.backup: the bucket after the records are uploaded under s3_key
backup(bucket, s3_key, records) ==
    (s3_key :> [i \in DOMAIN records |-> _annotate_data(records[i])]) @@ bucket

\* BackupManager.backup_exists
backup_exists(bucket, s3_key) == s3_key \in DOMAIN bucket

\* BackupManager.restore: the records read from s3_key
restore(bucket, s3_key) == [i \in DOMAIN bucket[s3_key] |-> _deannotate_data(bucket[s3_key][i])]

\* DynamoTable.query(partition_key): the records of the partition, by sort key
RECURSIVE QueryFrom(_, _, _)
QueryFrom(records, partition_key, i) ==
    IF i > Len(SortKeys) THEN <<>>
    ELSE LET found == {r \in records : r.pk = Str(partition_key) /\ r.sk = Str(SortKeys[i])}
         IN  (IF found = {} THEN <<>> ELSE <<CHOOSE r \in found : TRUE>>)
             \o QueryFrom(records, partition_key, i + 1)

query(records, partition_key) == QueryFrom(records, partition_key, 1)

\* DynamoTable.clear_table(partition_key=..., sort_key_prefix=self.sort_key_prefix):
\* what is left of the records.  partition_key is Str(k) or None; without a
\* partition key the records of every partition are deleted (as in
\* DynamoTableBase.clear_records: "all records managed by current table manager")
clear_table(records, partition_key) ==
    IF partition_key = PyNone THEN {} ELSE {r \in records : r.pk # partition_key}

\* DynamoTable.batch_upsert: each record replaces the one with its keys
RECURSIVE batch_upsert(_, _)
batch_upsert(records, data_table) ==
    IF data_table = <<>> THEN records
    ELSE LET new == Head(data_table)
         IN  batch_upsert({r \in records : ~(r.pk = new.pk /\ r.sk = new.sk)} \cup {new},
                          Tail(data_table))

\* the table and the bucket a method works on, and the exception it raised
Store(records, bucket, raised) == [table |-> records, s3 |-> bucket, raised |-> raised]

\* self._validate_partition_key(partition_key) passes
ValidPartitionKey(partition_key) == \E i \in DOMAIN partition_names : partition_names[i] = partition_key

\* clear_partition(*partition_keys)
RECURSIVE clear_partition(_, _)
clear_partition(store, partition_keys) ==
    IF partition_keys = <<>> THEN store
    ELSE LET partition_key == Head(partition_keys)
         IN  IF ~ValidPartitionKey(partition_key)
             THEN [store EXCEPT !.raised = [cls |-> "DynamoTableError"]]
             ELSE clear_partition(
                      [store EXCEPT !.table = clear_table(store.table, Str(partition_key))],
                      Tail(partition_keys))

\* backup_partition(*partition_keys)
RECURSIVE backup_partition(_, _)
backup_partition(store, partition_keys) ==
    IF partition_keys = <<>> THEN store
    ELSE LET partition_key == Head(partition_keys)
         IN  IF ~ValidPartitionKey(partition_key)
             THEN [store EXCEPT !.raised = [cls |-> "DynamoTableError"]]
             ELSE backup_partition(
                      [store EXCEPT !.s3 = backup(store.s3, S3Key(partition_key),
                                                  query(store.table, partition_key))],
                      Tail(partition_keys))

\* restore_partition(*partition_keys): line 124 calls clear_table without a
\* partition key
RECURSIVE restore_partition(_, _)
restore_partition(store, partition_keys) ==
    IF partition_keys = <<>> THEN store
    ELSE LET partition_key == Head(partition_keys)
         IN  IF ~ValidPartitionKey(partition_key) \/ ~backup_exists(store.s3, S3Key(partition_key))
             THEN [store EXCEPT !.raised = [cls |-> "DynamoTableError"]]
             ELSE restore_partition(
                      [store EXCEPT !.table =
                          batch_upsert(clear_table(store.table, PyNone),
                                       restore(store.s3, S3Key(partition_key)))],
                      Tail(partition_keys))

\* clear_project(), backup_project(), restore_project()
clear_project(store) == clear_partition(store, partition_names)
backup_project(store) == backup_partition(store, partition_names)
restore_project(store) == restore_partition(store, partition_names)

\* how a table operation ended: the operation, its partition key, the
\* records before it, and whether it raised
Outcome(op, partition_key, store) ==
    [kind |-> op, partition_key |-> partition_key, before |-> table,
     raised |-> store.raised # PyNone]

\* a record is written through the manager (upsert)
PutRecord(pk, sk, body) ==
    /\ table' = batch_upsert(table, <<Record(pk, sk, body)>>)
    /\ outcome' = [kind |-> "write"]
    /\ UNCHANGED <<s3, atBackup>>
    /\ UNCHANGED <<routerVars, threadVars, retryVars, recordVars, sqlVars>>

\* a record is deleted
DeleteRecord(pk, sk) ==
    /\ \E r \in table : r.pk = Str(pk) /\ r.sk = Str(sk)
    /\ table' = {r \in table : ~(r.pk = Str(pk) /\ r.sk = Str(sk))}
    /\ outcome' = [kind |-> "write"]
    /\ UNCHANGED <<s3, atBackup>>
    /\ UNCHANGED <<routerVars, threadVars, retryVars, recordVars, sqlVars>>

\* manager.clear_partition(partition_key)
ClearPartition(partition_key) ==
    /\ LET store == clear_partition(Store(table, s3, PyNone), <<partition_key>>)
       IN  /\ table' = store.table
           /\ outcome' = Outcome("clear_partition", partition_key, store)
    /\ UNCHANGED <<s3, atBackup>>
    /\ UNCHANGED <<routerVars, threadVars, retryVars, recordVars, sqlVars>>

\* manager.clear_project()
ClearProject ==
    /\ LET store == clear_project(Store(table, s3, PyNone))
       IN  /\ table' = store.table
           /\ outcome' = Outcome("clear_project", "", store)
    /\ UNCHANGED <<s3, atBackup>>
    /\ UNCHANGED <<routerVars, threadVars, retryVars, recordVars, sqlVars>>

\* manager.backup_project()
BackupProject ==
    /\ LET store == backup_project(Store(table, s3, PyNone))
       IN  /\ s3' = store.s3
           /\ outcome' = Outcome("backup_project", "", store)
    /\ atBackup' = [taken |-> TRUE, table |-> table]
    /\ UNCHANGED table
    /\ UNCHANGED <<routerVars, threadVars, retryVars, recordVars, sqlVars>>

\* manager.restore_partition(partition_key)
RestorePartition(partition_key) ==
    /\ LET store == restore_partition(Store(table, s3, PyNone), <<partition_key>>)
       IN  /\ table' = store.table
           /\ outcome' = Outcome("restore_partition", partition_key, store)
    /\ UNCHANGED <<s3, atBackup>>
    /\ UNCHANGED <<routerVars, threadVars, retryVars, recordVars, sqlVars>>

\* manager.restore_project()
RestoreProject ==
    /\ LET store == restore_project(Store(table, s3, PyNone))
       IN  /\ table' = store.table
           /\ outcome' = Outcome("restore_project", "", store)
    /\ UNCHANGED <<s3, atBackup>>
    /\ UNCHANGED <<routerVars, threadVars, retryVars, recordVars, sqlVars>>

----------------------------------------------------------------------------
(* PartitionedDynamoRecord (pytools/dynamo/base/partitioned_dynamo_record.py) *)

\* how a method ended
MethodReturns(v) == [kind |-> "return", value |-> v]
MethodRaises(c) == [kind |-> "raise", value |-> [cls |-> c]]

\* bool(v) of None and of a string
Truthy(v) == v # PyNone /\ v # Str("")

\* all(self.get(i) for i in self.HASH_COLUMNS): a key the record does not
\* have gets None
has_hash_columns(self, HASH_COLUMNS) ==
    \A i \in DOMAIN HASH_COLUMNS : Truthy(DictGet(self, HASH_COLUMNS[i], PyNone))

\* PartitionedDynamoRecord.sanitize_key_pk(value, partition_manager=...) on a
\* record `self` of a class with the given HASH_COLUMNS.  partition_manager
\* is None when it is not in kwargs; `routed` is how
\* partition_manager.get_partition(key=self.get_hash()) ends.
sanitize_key_pk(self, HASH_COLUMNS, value, partition_manager, routed) ==
    IF partition_manager = PyNone THEN MethodReturns(value)
    ELSE IF ~has_hash_columns(self, HASH_COLUMNS) THEN MethodReturns(value)
    ELSE IF HASH_COLUMNS = <<>> THEN MethodRaises("DynamoTableError")
    ELSE IF routed.kind = "raise" THEN routed
    ELSE LET expected == routed.value
         IN  IF value # PyNone /\ value # expected
             THEN MethodRaises("DynamoTableError")
             ELSE MethodReturns(expected)

\* record.sanitize_key_pk(value, **kwargs) is called
SanitizeKeyPk(self, HASH_COLUMNS, value, partition_manager, routed) ==
    /\ sanitize' = [kind |-> "sanitize_key_pk", self |-> self, HASH_COLUMNS |-> HASH_COLUMNS,
                    value |-> value, partition_manager |-> partition_manager,
                    routed |-> routed,
                    result |-> sanitize_key_pk(self, HASH_COLUMNS, value, partition_manager, routed)]
    /\ UNCHANGED <<routerVars, threadVars, retryVars, storeVars, sqlVars>>

----------------------------------------------------------------------------
(* DatabaseAdapter (pytools/sql/adapters/base.py, postgresql.py) *)

\* the variables of the session and the values the server gives them
SessionVariables == [autocommit |-> "off", transaction_isolation |-> "read committed"]

\* the values a client gives a variable
VariableValues ==
    [autocommit |-> {"off", "on"},
     transaction_isolation |-> {"read committed", "serializable"}]

\* IsolationLevel members and isolation_level.name.lower().replace("_", " ")
IsolationLevelStr == [READ_COMMITTED |-> "read committed", SERIALIZABLE |-> "serializable"]

\* self.getvar(name) and self.setvar(name, value) on the variables of the session
getvar(session, name) == session[name]
setvar(session, name, value) == [session EXCEPT ![name] = value]

\* setvars up to its yield: every variable is read into prev_vars and set
RECURSIVE setvars_enter(_, _, _)
setvars_enter(session, variables, prev_vars) ==
    IF DOMAIN variables = {} THEN [session |-> session, prev_vars |-> prev_vars]
    ELSE LET name == CHOOSE n \in DOMAIN variables : TRUE
         IN  setvars_enter(setvar(session, name, variables[name]),
                           [n \in DOMAIN variables \ {name} |-> variables[n]],
                           (name :> getvar(session, name)) @@ prev_vars)

\* setvars after its yield: every variable of prev_vars is set back
RECURSIVE setvars_exit(_, _)
setvars_exit(session, prev_vars) ==
    IF DOMAIN prev_vars = {} THEN session
    ELSE LET name == CHOOSE n \in DOMAIN prev_vars : TRUE
         IN  setvars_exit(setvar(session, name, prev_vars[name]),
                          [n \in DOMAIN prev_vars \ {name} |-> prev_vars[n]])

\* setvars when the body raises: the generator is resumed with the exception
\* at the yield, which is in no try block, so nothing after it runs
setvars_raise(session, prev_vars) == session

\* a context that was entered: its kind, the prev_vars of its setvars, and
\* the variables of the session just before it was entered
SqlContext(kind, prev_vars, before) == [kind |-> kind, prev_vars |-> prev_vars, before |-> before]

\* how a context was left
SqlExit(context, how) ==
    [kind |-> context.kind, how |-> how, names |-> DOMAIN context.prev_vars,
     before |-> context.before]

\* adapter.setvar(name, value) / adapter.vars.name = value
SetVar(name, value) ==
    /\ db_vars' = setvar(db_vars, name, value)
    /\ sql_exit' = NoCall
    /\ UNCHANGED <<sql_contexts, _transaction_level>>
    /\ UNCHANGED <<routerVars, threadVars, retryVars, storeVars, recordVars>>

\* with adapter.setvars(variables): is entered
EnterSetvars(variables) ==
    /\ LET entered == setvars_enter(db_vars, variables, EmptyDict)
       IN  /\ db_vars' = entered.session
           /\ sql_contexts' = Append(sql_contexts, SqlContext("setvars", entered.prev_vars, db_vars))
    /\ sql_exit' = NoCall
    /\ UNCHANGED _transaction_level
    /\ UNCHANGED <<routerVars, threadVars, retryVars, storeVars, recordVars>>

\* with adapter.transaction(isolation_level): is entered; isolation_level is
\* None or the name of an IsolationLevel.  In a nested transaction an
\* isolation level raises ValueError before anything is set.
EnterTransaction(isolation_level) ==
    /\ IF isolation_level # PyNone /\ _transaction_level > 0
       THEN /\ sql_exit' = [kind |-> "transaction", how |-> "ValueError", names |-> {},
                            before |-> db_vars]
            /\ UNCHANGED <<db_vars, sql_contexts, _transaction_level>>
       ELSE LET variables == IF isolation_level # PyNone
                             THEN "transaction_isolation" :> IsolationLevelStr[isolation_level.name]
                             ELSE EmptyDict
                entered == setvars_enter(db_vars, variables, EmptyDict)
            IN  /\ db_vars' = entered.session
                /\ sql_contexts' = Append(sql_contexts,
                                          SqlContext("transaction", entered.prev_vars, db_vars))
                /\ _transaction_level' = _transaction_level + 1
                /\ sql_exit' = NoCall
    /\ UNCHANGED <<routerVars, threadVars, retryVars, storeVars, recordVars>>

\* the innermost context is left normally
ExitSqlContext ==
    /\ sql_contexts # <<>>
    /\ LET context == sql_contexts[Len(sql_contexts)]
       IN  /\ db_vars' = setvars_exit(db_vars, context.prev_vars)
           /\ _transaction_level' = IF context.kind = "transaction"
                                    THEN _transaction_level - 1 ELSE _transaction_level
           /\ sql_exit' = SqlExit(context, "normal")
    /\ sql_contexts' = SubSeq(sql_contexts, 1, Len(sql_contexts) - 1)
    /\ UNCHANGED <<routerVars, threadVars, retryVars, storeVars, recordVars>>

\* the innermost context is left by an exception raised in its body.  The
\* outermost transaction is rolled back by `with self.connection`: whether
\* that undoes the SET commands of the context is up to the database and the
\* autocommit mode of the connection, so either the variables stay or they
\* are what they were when the context was entered.
RaiseInSqlContext ==
    /\ sql_contexts # <<>>
    /\ LET context == sql_contexts[Len(sql_contexts)]
           left == setvars_raise(db_vars, context.prev_vars)
       IN  /\ \/ db_vars' = left
              \/ /\ context.kind = "transaction"
                 /\ _transaction_level = 1
                 /\ db_vars' = context.before
           /\ _transaction_level' = IF context.kind = "transaction"
                                    THEN _transaction_level - 1 ELSE _transaction_level
           /\ sql_exit' = SqlExit(context, "exception")
    /\ sql_contexts' = SubSeq(sql_contexts, 1, Len(sql_contexts) - 1)
    /\ UNCHANGED <<routerVars, threadVars, retryVars, storeVars, recordVars>>

----------------------------------------------------------------------------
(* Specifications *)

Init ==
    /\ md5 = EmptyDict
    /\ key \in Keys
    /\ args = [r \in RouterIds |-> NoArgs]
    /\ router = [r \in RouterIds |-> NoObject]
    /\ call = [r \in RouterIds |-> NoCall]
    /\ thread = [t \in Threads |-> Idle]
    /\ frame = [t \in Threads |-> NoFrame]
    /\ flags = ClassAttributes
    /\ contexts = <<>>
    /\ decorator = NoObject
    /\ wrapper = Idle
    /\ events = <<>>
    /\ table = {}
    /\ s3 = EmptyDict
    /\ atBackup = [taken |-> FALSE]
    /\ outcome = NoCall
    /\ sanitize = NoCall
    /\ db_vars = SessionVariables
    /\ sql_contexts = <<>>
    /\ _transaction_level = 0
    /\ sql_exit = NoCall

\* the arguments a client may pass for partition_weights and partition_seeds
WeightArgs == {PyNone} \cup Dicts(Names, Weights)
SeedArgs == {PyNone} \cup Dicts(Names, SeedStrings)

\* Construction of one router, over every argument
NextBuild ==
    /\ router[1] = NoObject
    /\ \E names \in SUBSET Names, weights \in WeightArgs, seeds \in SeedArgs :
          Construct(1, names, weights, seeds)

SpecBuild == Init /\ [][NextBuild]_vars

\* the mappings one router is built with and routes under
RouteWeightArgs == {PyNone, "a" :> MaxWeight} \cup [Names -> {0 - 1, MaxWeight}]
RouteSeedArgs == {PyNone, "b" :> "a"}

\* One router: it is built, then routes the key
Next ==
    \/ /\ router[1] = NoObject
       /\ \E names \in SUBSET Names, weights \in RouteWeightArgs, seeds \in RouteSeedArgs :
             Construct(1, names, weights, seeds)
    \/ GetPartition(1)

Spec == Init /\ [][Next]_vars

\* the mappings the two routers of one behaviour of SpecPair are both built with
PairArgs == {<<PyNone, PyNone>>, <<"a" :> MaxWeight, PyNone>>, <<PyNone, "b" :> "a">>}

\* every router built so far was given the mappings `weights` and `seeds`
SameMappings(weights, seeds) ==
    \A o \in RouterIds :
        router[o].state = "built" =>
            /\ router[o].partition_weights = (IF weights # PyNone THEN weights ELSE EmptyDict)
            /\ router[o].partition_seeds = (IF seeds # PyNone THEN seeds ELSE EmptyDict)

\* Two routers built with the same mappings, each routing the key; the second
\* is built once the first has routed
NextPair ==
    \/ \E r \in RouterIds :
          /\ router[r] = NoObject
          /\ \A o \in RouterIds : o < r => call[o] # NoCall
          /\ \E names \in SUBSET Names, maps \in PairArgs :
                /\ SameMappings(maps[1], maps[2])
                /\ Construct(r, names, maps[1], maps[2])
    \/ \E r \in RouterIds : GetPartition(r)

SpecPair == Init /\ [][NextPair]_vars

\* the partition_weights of two routers that may differ in one weight
WeightStepArgs == {PyNone} \cup {n :> MaxWeight : n \in {"a", "c"}}

\* Two routers with the same names and seeds and with weights of their own,
\* each routing the key; the second is built once the first has routed
NextWeights ==
    \/ /\ router[1] = NoObject
       /\ \E names \in SUBSET Names, weights \in WeightStepArgs, seeds \in RouteSeedArgs :
             Construct(1, names, weights, seeds)
    \/ /\ router[2] = NoObject
       /\ call[1] # NoCall
       /\ \E weights \in WeightStepArgs :
             Construct(2, args[1].partition_names, weights, args[1].partition_seeds)
    \/ \E r \in RouterIds : GetPartition(r)

SpecWeights == Init /\ [][NextWeights]_vars

\* One router and its client: the router is built, then it routes the key, its
\* accessors are read, and the client changes the objects it shares with it
NextClient ==
    \/ /\ router[1] = NoObject
       /\ \E names \in SUBSET {"a", "b"}, maps \in PairArgs :
             Construct(1, names, maps[1], maps[2])
    \/ GetPartition(1)
    \/ Accessor(1)
    \/ ClientMutatesArguments(1)
    \/ ClientMutatesPartition(1)

SpecClient == Init /\ [][NextClient]_vars

\* the mappings of the router the threads share: a weight for one partition
ThreadArgs == {<<"a" :> MaxWeight, PyNone>>}

\* One router shared by the threads: it is built by one thread, then every
\* thread makes one call on it (get_partition of the key, or an accessor),
\* the calls interleaved pass by pass
NextThreads ==
    \/ /\ router[1] = NoObject
       /\ \E names \in SUBSET Names, maps \in ThreadArgs :
             Construct(1, names, maps[1], maps[2])
    \/ \E t \in Threads : CallGetPartition(t, key)
    \/ \E t \in Threads : ScorePartition(t)
    \/ \E t \in Threads : ReturnChampion(t)
    \/ \E t \in Threads : CallAccessor(t)

\* every thread routes the same key
InitThreads == Init /\ key = "k"

SpecThreads == InitThreads /\ [][NextThreads]_vars

MaxTries == 2
MaxNesting == 2

\* the arguments a decorator is built with
NumTriesArgs == {PyNone} \cup {PyInt(n) : n \in 0..MaxTries}
RetryArgs == {{}, {"ValueError"}}
RaiseArgs == {{}, {"OSError"}}
FallbackArgs == {NOT_SET, [py |-> "fallback"]}

\* what an invocation of the decorated function may do
BasicOutcomes ==
    {FReturns([py |-> "result"])} \cup {FRaises([cls |-> c]) : c \in {"ValueError", "OSError", "KeyboardInterrupt"}}

\* A function decorated with RetryAndBackoff or RetryBackoffReturnNone is
\* called once, inside whatever no_retry() / no_backoff() contexts
NextRetry ==
    \/ /\ decorator = NoObject
       /\ \E cls \in {"RetryAndBackoff", "RetryBackoffReturnNone"}, num_tries \in NumTriesArgs,
             exceptions_to_retry \in RetryArgs, exceptions_to_raise \in RaiseArgs,
             fallback_value \in FallbackArgs :
             Decorate(cls, num_tries, exceptions_to_retry, exceptions_to_raise, fallback_value)
    \/ /\ Len(contexts) < MaxNesting
       /\ \E cls \in {"RetryAndBackoff", "RetryBackoffReturnNone"}, flag \in {"__retry__", "__backoff__"} :
             EnterContext(cls, flag)
    \/ ExitContext
    \/ CallWrapper(<<>>, EmptyDict)
    \/ \E o \in BasicOutcomes : Attempt(o)
    \/ Fallback

\* no router is built in the behaviours of the retry specifications
InitRetry == Init /\ key = "k"

SpecRetry == InitRetry /\ [][NextRetry]_vars

\* the same, for a decorated function that terminates whenever it is invoked:
\* a call in its loop makes its next attempt, and a call whose loop is over
\* reaches its return
SpecRetryFair ==
    /\ SpecRetry
    /\ WF_vars(\E o \in BasicOutcomes : Attempt(o))
    /\ WF_vars(Fallback)

\* the items of the batch request a client submits
BatchItems == <<"i1", "i2">>

\* the non-empty subsequences of a sequence of items, in its order
SubSequences(items) ==
    {sub \in UNION {[1..n -> {items[i] : i \in DOMAIN items}] : n \in 1..Len(items)} :
        \E idx \in [1..Len(sub) -> DOMAIN items] :
            /\ \A i \in 1..Len(sub) : sub[i] = items[idx[i]]
            /\ \A i \in 1..(Len(sub) - 1) : idx[i] < idx[i + 1]}

\* the error codes of the ClientError a request may fail with
ClientErrorCodes ==
    {"ThrottlingException", "TooManyRequestsException",
     "ProvisionedThroughputExceededException", "ValidationError", "AccessDenied"}

\* the response of the n-th request
Response(n) == [py |-> "response", n |-> n]

\* what the n-th invocation of a batch function may do when it is called with
\* args_: return the response, fail with a ClientError, leave some of the
\* items it was given unprocessed (raise BatchUnprocessedItemsError with
\* them and the response), or fail with an error of its own
BotoOutcomes(args_, n) ==
    {FReturns(Response(n))}
    \cup {FRaises([cls |-> "ClientError", code |-> c]) : c \in ClientErrorCodes}
    \cup {FRaises([cls |-> "BatchUnprocessedItemsError", unprocessed_items |-> u,
                   response |-> Response(n)]) : u \in SubSequences(args_[1])}
    \cup {FRaises([cls |-> "ValueError"])}

\* the number of the next invocation of the call
NextAttemptNumber == Cardinality({i \in DOMAIN events : events[i].ev = "attempt"}) + 1

\* A batch function decorated with @RetryAndBackoffBoto3() or
\* @RetryAndBackoffBoto3(num_tries=n) is called once with a batch of items
NextBoto3 ==
    \/ /\ decorator = NoObject
       /\ \E num_tries \in {PyNone, PyInt(MaxTries)} :
             Decorate("RetryAndBackoffBoto3", num_tries, {}, {}, NOT_SET)
    \/ CallWrapper(<<BatchItems>>, EmptyDict)
    \/ /\ wrapper.pc = "loop"
       /\ \E o \in BotoOutcomes(wrapper.args, NextAttemptNumber) : Attempt(o)
    \/ Fallback

SpecBoto3 == InitRetry /\ [][NextBoto3]_vars

\* Records are written to and deleted from a partitioned table, whose
\* manager clears, backs up and restores partitions and the project
NextStore ==
    \/ \E i \in DOMAIN partition_names, j \in DOMAIN SortKeys, body \in Bodies :
          PutRecord(partition_names[i], SortKeys[j], body)
    \/ \E i \in DOMAIN partition_names, j \in DOMAIN SortKeys :
          DeleteRecord(partition_names[i], SortKeys[j])
    \/ \E partition_key \in PartitionKeys : ClearPartition(partition_key)
    \/ ClearProject
    \/ BackupProject
    \/ \E partition_key \in PartitionKeys : RestorePartition(partition_key)
    \/ RestoreProject

\* no router is built and nothing is decorated in these behaviours
InitStore == Init /\ key = "k"

SpecStore == InitStore /\ [][NextStore]_vars

\* the inputs of sanitize_key_pk: the HASH_COLUMNS of the record class, the
\* values the record has for them, the pk value, the partition manager, and
\* what the partition manager answers
HashColumnsArgs == {<<>>, <<"platform">>, <<"platform", "platform_id">>}
HashValues == {PyNone, Str(""), Str("a")}
RecordArgs == UNION {[keys -> HashValues] : keys \in SUBSET {"platform", "platform_id"}}
PkArgs == {PyNone, Str("")} \cup {Str(partition_names[i]) : i \in DOMAIN partition_names}
ManagerArgs == {PyNone, [py |-> "PartitionManager"]}
RoutedArgs ==
    {MethodReturns(Str(partition_names[i])) : i \in DOMAIN partition_names}
    \cup {MethodRaises("ValueError")}

\* sanitize_key_pk is called on records of every kind
NextRecord ==
    \E self \in RecordArgs, HASH_COLUMNS \in HashColumnsArgs, value \in PkArgs,
       partition_manager \in ManagerArgs, routed \in RoutedArgs :
        SanitizeKeyPk(self, HASH_COLUMNS, value, partition_manager, routed)

InitRecord == Init /\ key = "k"

SpecRecord == InitRecord /\ [][NextRecord]_vars

\* the dicts of variables a client passes to setvars
SetvarsArgs ==
    UNION {[names -> UNION {VariableValues[n] : n \in names}] : names \in SUBSET DOMAIN SessionVariables}

\* the isolation levels a client passes to transaction
IsolationArgs == {PyNone} \cup {[py |-> "IsolationLevel", name |-> n] : n \in DOMAIN IsolationLevelStr}

\* A client sets variables and enters and leaves setvars() and transaction()
\* contexts, properly nested
NextSql ==
    \/ \E name \in DOMAIN SessionVariables : \E value \in VariableValues[name] : SetVar(name, value)
    \/ /\ Len(sql_contexts) < MaxNesting
       /\ \E variables \in SetvarsArgs :
             /\ \A n \in DOMAIN variables : variables[n] \in VariableValues[n]
             /\ EnterSetvars(variables)
    \/ /\ Len(sql_contexts) < MaxNesting
       /\ \E isolation_level \in IsolationArgs : EnterTransaction(isolation_level)
    \/ ExitSqlContext
    \/ RaiseInSqlContext

InitSql == Init /\ key = "k"

SpecSql == InitSql /\ [][NextSql]_vars

----------------------------------------------------------------------------
(* What the claims speak of *)

Parts(r) == router[r]._partitions
PartSet(r) == {Parts(r)[i] : i \in DOMAIN Parts(r)}
NameSet(r) == {Parts(r)[i].name : i \in DOMAIN Parts(r)}

\* router r was built and has routed the key
Routed(r) == router[r].state = "built" /\ call[r] # NoCall

\* the weighted score of the i-th partition of router r for the key
ScoreOf(r, i) == _compute_weighted_score(md5, Parts(r)[i], key)

\* every partition of router r has a score: no score computation raises
AllScored(r) == \A j \in DOMAIN Parts(r) : ScoreOf(r, j).ok

\* every partition of router r has a score, and the i-th has the highest
IsMax(r, i) ==
    /\ AllScored(r)
    /\ \A j \in DOMAIN Parts(r) : ScoreOf(r, j).value <= ScoreOf(r, i).value

\* the mappings as __init__ keeps them
Given(mapping) == IF mapping # PyNone THEN mapping ELSE EmptyDict

----------------------------------------------------------------------------
(* Claims on one router (Spec) *)

\* C1 (as claimed): every get_partition call on a constructed router returns a
\* name of get_all_partition_names(); it never raises.
C1_Totality ==
    Routed(1) =>
        /\ call[1].kind = "return"
        /\ \E i \in DOMAIN get_all_partition_names(router[1]) :
              get_all_partition_names(router[1])[i] = call[1].value

\* C5: when a router of two or more partitions returns a name, it is the name
\* of a partition whose score is at least every other partition's score, and
\* the first such partition in the iteration order of the table.
C5_HighestScoreWins ==
    (Routed(1) /\ Len(Parts(1)) >= 2 /\ call[1].kind = "return") =>
        \E i \in DOMAIN Parts(1) :
            /\ Parts(1)[i].name = call[1].value
            /\ IsMax(1, i)
            /\ \A j \in 1..(i - 1) : ScoreOf(1, j).value < ScoreOf(1, i).value

\* a call returned the first of two partitions that tie at the highest score
C5_Witness ==
    /\ Routed(1) /\ Len(Parts(1)) >= 2 /\ call[1].kind = "return"
    /\ \E i, j \in DOMAIN Parts(1) :
          /\ i < j /\ IsMax(1, i) /\ IsMax(1, j)
          /\ Parts(1)[i].name = call[1].value
          /\ Parts(1)[i].seed # Parts(1)[j].seed

\* C6: a router of exactly one partition returns that partition's name for
\* every key, whatever its weight and seed, and hashes nothing.
C6_SinglePartitionShortcut ==
    (Routed(1) /\ Len(Parts(1)) = 1) =>
        /\ call[1] = Returned(Parts(1)[1].name, 0)
        /\ md5 = EmptyDict

\* a router of one partition of negative weight and explicit seed routed ""
C6_Witness ==
    /\ Routed(1) /\ Len(Parts(1)) = 1 /\ key = ""
    /\ Parts(1)[1].weight < 0 /\ Parts(1)[1].seed # Parts(1)[1].name
    /\ call[1].kind = "return"

\* the hash fraction f of the i-th partition of router r for the key
FractionOf(r, i) == _int_to_float(_hash(md5, Parts(r)[i].seed, key))

\* C11 (as claimed): when the hash fraction of some partition of a router of
\* two or more partitions is 0 for the key, get_partition still returns the
\* name of one of its partitions; it does not fail.
C11_ZeroFractionStillRoutes ==
    (/\ Routed(1) /\ Len(Parts(1)) >= 2
     /\ \E i \in DOMAIN Parts(1) :
           Parts(1)[i].seed \o key \in DOMAIN md5 /\ FractionOf(1, i) = 0)
        => call[1].kind = "return" /\ call[1].value \in NameSet(1)

----------------------------------------------------------------------------
(* Claims on construction (SpecBuild) *)

\* C7: constructing with an empty partition_names raises PartitionManagerError,
\* whatever weights and seeds are passed; no built router has an empty table.
C7_EmptyNamesRejected ==
    \A r \in RouterIds :
        /\ (args[r].given /\ args[r].partition_names = {}) =>
               router[r] = [state |-> "raised", exc |-> "PartitionManagerError"]
        /\ router[r].state = "built" => Len(Parts(r)) >= 1

\* a construction with no names but with weights and seeds was rejected
C7_Witness ==
    /\ args[1].given /\ args[1].partition_names = {}
    /\ args[1].partition_weights # PyNone /\ DOMAIN args[1].partition_weights # {}
    /\ args[1].partition_seeds # PyNone /\ DOMAIN args[1].partition_seeds # {}
    /\ router[1].state = "raised"

\* C8 (as claimed): constructing with a weight <= 0 for some partition name
\* raises the configuration error; every partition of a built router has a
\* strictly positive weight.
C8_NonPositiveWeightRejected ==
    \A r \in RouterIds :
        /\ (/\ args[r].given
            /\ \E n \in args[r].partition_names \cap DOMAIN Given(args[r].partition_weights) :
                  args[r].partition_weights[n] <= 0)
              => router[r].state = "raised"
        /\ router[r].state = "built" =>
              \A i \in DOMAIN Parts(r) : Parts(r)[i].weight > 0

\* C9: a built router holds exactly one Partition per name of partition_names
\* and none for any other name; its weight is the supplied weight or 1, its
\* seed the supplied seed or the name.
C9_TableResolved ==
    \A r \in RouterIds :
        router[r].state = "built" =>
            LET weights == Given(args[r].partition_weights)
                seeds == Given(args[r].partition_seeds)
            IN  /\ NameSet(r) = args[r].partition_names
                /\ Len(Parts(r)) = Cardinality(args[r].partition_names)
                /\ \A i \in DOMAIN Parts(r) :
                      LET p == Parts(r)[i]
                      IN  /\ p.weight = IF p.name \in DOMAIN weights THEN weights[p.name] ELSE 1
                          /\ p.seed = IF p.name \in DOMAIN seeds THEN seeds[p.name] ELSE p.name

\* a built router with a supplied and a defaulted weight, a supplied and a
\* defaulted seed, and mappings that name a partition it does not have
C9_Witness ==
    /\ router[1].state = "built" /\ Len(Parts(1)) = 2
    /\ \E n \in DOMAIN Given(args[1].partition_weights) : n \notin NameSet(1)
    /\ \E n \in DOMAIN Given(args[1].partition_seeds) : n \notin NameSet(1)
    /\ \E i, j \in DOMAIN Parts(1) :
          /\ Parts(1)[i].name \in DOMAIN Given(args[1].partition_weights)
          /\ Parts(1)[j].name \notin DOMAIN Given(args[1].partition_weights)
    /\ \E i, j \in DOMAIN Parts(1) :
          /\ Parts(1)[i].name \in DOMAIN Given(args[1].partition_seeds)
          /\ Parts(1)[j].name \notin DOMAIN Given(args[1].partition_seeds)

----------------------------------------------------------------------------
(* Claims on two routers built with the same mappings (SpecPair) *)

\* both calls ended the same way: the same name returned, or the same exception
SameOutcome(r1, r2) == call[r1].kind = call[r2].kind /\ call[r1].value = call[r2].value

\* C2 (as claimed): if router r2 holds the partitions of r1 (two or more) but
\* one, c, and r1 routes the key to a retained partition p, r2 routes it to p.
C2_RemovalKeepsRetained ==
    \A r1, r2 \in RouterIds :
        (/\ Routed(r1) /\ Routed(r2) /\ Len(Parts(r1)) >= 2
         /\ call[r1].kind = "return"
         /\ \E c \in NameSet(r1) \ {call[r1].value} :
               PartSet(r2) = {p \in PartSet(r1) : p.name # c})
            => call[r2] # NoCall /\ SameOutcome(r1, r2)

\* C3 (as claimed): if router r2 holds the partitions of r1 and one more, d,
\* r2 routes the key to d or to the partition r1 routes it to.
C3_AdditionMovesOnlyToNew ==
    \A r1, r2 \in RouterIds :
        (/\ Routed(r1) /\ Routed(r2) /\ call[r1].kind = "return")
            => \A d \in NameSet(r2) \ NameSet(r1) :
                  PartSet(r1) = {p \in PartSet(r2) : p.name # d}
                      => /\ call[r2].kind = "return"
                         /\ call[r2].value \in {d, call[r1].value}

\* C4 (as claimed): two routers built from equal constructor arguments route
\* the key alike.
C4_Determinism ==
    \A r1, r2 \in RouterIds :
        (Routed(r1) /\ Routed(r2) /\ args[r1] = args[r2]) => SameOutcome(r1, r2)

\* exactly one partition of router r attains the highest score
UniqueMax(r) ==
    \/ Len(Parts(r)) = 1
    \/ /\ AllScored(r)
       /\ \E i \in DOMAIN Parts(r) :
             \A j \in DOMAIN Parts(r) \ {i} : ScoreOf(r, j).value < ScoreOf(r, i).value

\* C10: two routers holding the same partitions, in whatever orders, route the
\* key alike whenever exactly one partition attains the highest score.
C10_OrderIndependence ==
    \A r1, r2 \in RouterIds :
        (Routed(r1) /\ Routed(r2) /\ PartSet(r1) = PartSet(r2) /\ UniqueMax(r1))
            => SameOutcome(r1, r2)

\* two routers iterate the same three partitions in different orders, one
\* partition alone has the highest score, and both returned a name
C10_Witness ==
    /\ Routed(1) /\ Routed(2) /\ PartSet(1) = PartSet(2) /\ UniqueMax(1)
    /\ Len(Parts(1)) = 3 /\ Parts(1)[1] # Parts(2)[1]
    /\ call[1].kind = "return" /\ call[2].kind = "return"
    /\ call[1].value # Parts(1)[1].name

----------------------------------------------------------------------------
(* Claims on a router and its client (SpecClient) *)

\* the table the constructor resolves from the arguments it was given
ResolvedTable(a) ==
    {Partition(n, DictGet(Given(a.partition_weights), n, DEFAULT_WEIGHT),
                  DictGet(Given(a.partition_seeds), n, n)) : n \in a.partition_names}

\* C12 (as claimed): in every state after the constructor returned, the set of
\* partitions of the table and the name, weight and seed of each equal the
\* values resolved at construction, whatever calls are made and whatever the
\* client does to the collections it passed or to a Partition it obtained
\* from get_partition_details.
C12_TableImmutable ==
    router[1].state = "built" =>
        /\ PartSet(1) = ResolvedTable(args[1])
        /\ Len(Parts(1)) = Cardinality(args[1].partition_names)

----------------------------------------------------------------------------
(* Claims on threads sharing a router (SpecThreads) *)

\* what the call of thread t returns when it runs alone
AloneResult(t) ==
    IF thread[t].op = "get_partition"
    THEN get_partition(md5, router[1], thread[t].key)
    ELSE Returned(AccessorValue(router[1], thread[t].op), 0)

\* every finished call returned what it returns when run alone
ReturnsAsAlone == \A t \in Threads : thread[t].pc = "done" => thread[t].result = AloneResult(t)

\* a step of a call leaves the router as it is, and changes the position and
\* the local variables of at most one call
WritesOwnStateOnly ==
    router[1].state = "built" =>
        /\ router' = router
        /\ Cardinality({s \in Threads : thread'[s] # thread[s] \/ frame'[s] # frame[s]}) <= 1

\* C13: under every interleaving of the threads' calls on one shared router,
\* each call returns exactly the value it returns when run alone, and no step
\* of a call writes state shared between calls.
C13_ConcurrentRoutingSafe == []ReturnsAsAlone /\ [][WritesOwnStateOnly]_vars

\* a get_partition call on a router of three partitions has returned a name
\* while another call is inside its loop, past its first partition, holding
\* another partition as its champion so far
C13_Witness ==
    /\ router[1].state = "built" /\ Len(Parts(1)) = 3
    /\ thread[1].pc = "done" /\ thread[1].op = "get_partition"
    /\ thread[1].result.kind = "return"
    /\ thread[2].pc = "loop" /\ thread[2].i = 2
    /\ frame[Frame(2)].champion # PyNone
    /\ frame[Frame(2)].champion.name # thread[1].result.value

----------------------------------------------------------------------------
(* Claims on a decorated call (SpecRetry) *)

\* the attempts of the call so far, in order
Attempts == SelectSeq(events, LAMBDA e : e.ev = "attempt")
NumAttempts == Len(Attempts)

\* the exception the wrapper sees when the function does `o` (it raises)
Seen(o) == translate_errors(decorator.cls, o.exc)

\* the function raised an exception of exceptions_to_raise
RaisesToRaise(o) == o.kind = "raise" /\ IsInstance(Seen(o), decorator._exceptions_to_raise)

\* the function raised an exception the wrapper retries
RaisesRetryable(o) ==
    /\ o.kind = "raise"
    /\ ~IsInstance(Seen(o), decorator._exceptions_to_raise)
    /\ IsInstance(Seen(o), decorator._exceptions_to_retry)

\* max(n, 1) for the num_tries = n the decorator was given, 5 for None
AllowedTries ==
    Max(IF decorator.num_tries = PyNone THEN 5 ELSE decorator.num_tries.value, 1)

\* the call is made inside a no_retry() context of the decorator's class
NoRetryActive ==
    \E i \in DOMAIN contexts :
        contexts[i].flag = "__retry__" /\ contexts[i].cls = decorator.cls

\* the bounds of C15 on a call
RetryBound ==
    wrapper.pc # "idle" =>
        /\ wrapper.state.tries_remaining >= 0
        /\ NumAttempts <= AllowedTries
        /\ wrapper.pc = "done" =>
              /\ NumAttempts >= 1
              /\ wrapper.result.kind \in {"return", "raise"}
              /\ (/\ GetFlag(flags, decorator.cls, "__retry__")
                  /\ \A i \in DOMAIN Attempts : RaisesRetryable(Attempts[i].outcome))
                    => NumAttempts = AllowedTries
              /\ NoRetryActive => NumAttempts = 1

\* a failed attempt after which the loop goes on has decreased tries_remaining
TriesDecrease ==
    (wrapper.pc = "loop" /\ wrapper'.pc = "loop" /\ events' # events)
        => wrapper'.state.tries_remaining < wrapper.state.tries_remaining

C16_NoRetryOfExceptionsToRaise ==
    wrapper.pc # "idle" =>
        \A i \in DOMAIN events :
            (events[i].ev = "attempt" /\ RaisesToRaise(events[i].outcome)) =>
                /\ \A j \in DOMAIN events : j > i => events[j].ev = "handle_exception"
                /\ wrapper.state.tries_remaining = 0
                /\ (wrapper.pc = "done" /\ decorator._fallback_value = NOT_SET) =>
                       wrapper.result = [kind |-> "raise", value |-> Seen(events[i].outcome)]

\* the first of several allowed attempts raised an exception that is both of
\* exceptions_to_raise and of exceptions_to_retry, and the call raised it
C16_Witness ==
    /\ wrapper.pc = "done" /\ NumAttempts = 1 /\ decorator.max_tries > 1
    /\ GetFlag(flags, decorator.cls, "__retry__")
    /\ RaisesToRaise(Attempts[1].outcome)
    /\ IsInstance(Seen(Attempts[1].outcome), decorator._exceptions_to_retry)
    /\ wrapper.result.kind = "raise"

\* the tries the call was allowed: max_tries, or 1 inside no_retry()
TriesAtCall == IF GetFlag(flags, decorator.cls, "__retry__") THEN decorator.max_tries ELSE 1

\* what the wrapper does on ultimate failure with exception e
OnFailure(e) ==
    IF decorator._fallback_value # NOT_SET
    THEN [kind |-> "return", value |-> decorator._fallback_value]
    ELSE [kind |-> "raise", value |-> e]

\* C17 (as claimed): when the last allowed attempt failed, the call returns the
\* fallback value if there is one and otherwise raises the exception of the
\* last attempt; a call whose attempt succeeds returns its result; the call
\* never returns NOT_SET.
C17_OutcomeOnFailure ==
    wrapper.pc = "done" =>
        LET last == Attempts[NumAttempts].outcome
        IN  /\ last.kind = "return" => wrapper.result = [kind |-> "return", value |-> last.value]
            /\ (last.kind = "raise" /\ (NumAttempts = TriesAtCall \/ RaisesToRaise(last)))
                  => wrapper.result = OnFailure(Seen(last))
            /\ wrapper.result # [kind |-> "return", value |-> NOT_SET]

\* C17 (amended): when the call ends with no tries left, its last attempt
\* having raised an exception of exceptions_to_raise or exceptions_to_retry,
\* it returns the fallback value if there is one and otherwise raises that
\* exception; an exception of neither tuple is raised to the caller at once,
\* whatever the fallback value; a call whose attempt succeeds returns its
\* result; what the call returns is the result of its successful attempt or
\* a fallback value other than NOT_SET.
C17_OutcomeOnCaughtFailure ==
    wrapper.pc = "done" =>
        /\ NumAttempts >= 1
        /\ LET last == Attempts[NumAttempts].outcome
           IN  /\ last.kind = "return" => wrapper.result = [kind |-> "return", value |-> last.value]
               /\ (RaisesToRaise(last) \/ RaisesRetryable(last)) =>
                      /\ wrapper.state.tries_remaining = 0
                      /\ wrapper.result = OnFailure(Seen(last))
               /\ (last.kind = "raise" /\ ~RaisesToRaise(last) /\ ~RaisesRetryable(last)) =>
                      wrapper.result = [kind |-> "raise", value |-> Seen(last)]
               /\ wrapper.result.kind = "return" =>
                      \/ last.kind = "return" /\ wrapper.result.value = last.value
                      \/ /\ last.kind = "raise"
                         /\ decorator._fallback_value # NOT_SET
                         /\ wrapper.result.value = decorator._fallback_value

\* a RetryBackoffReturnNone call returned None after its last allowed attempt
\* of several raised a retryable exception
C17_Witness ==
    /\ wrapper.pc = "done" /\ decorator.cls = "RetryBackoffReturnNone"
    /\ NumAttempts = decorator.max_tries /\ NumAttempts >= 2
    /\ RaisesRetryable(Attempts[NumAttempts].outcome)
    /\ wrapper.result = [kind |-> "return", value |-> PyNone]

----------------------------------------------------------------------------
(* RetryAndBackoffBoto3 *)

\* the exception of attempt `o` is a resource-constraint error: a ClientError
\* with one of the three codes, or a BatchUnprocessedItemsError
ResourceConstraint(o) ==
    \/ /\ o.exc.cls = "ClientError"
       /\ o.exc.code \in {"ThrottlingException", "TooManyRequestsException",
                          "ProvisionedThroughputExceededException"}
    \/ o.exc.cls = "BatchUnprocessedItemsError"

\* C18: with default settings a call is retried only when it fails with a
\* resource-constraint error: an attempt that fails with one while tries
\* remain is followed by another attempt, and an attempt that fails with any
\* other error is the last one of its call, which raises that error.
C18_RetriesResourceConstraintOnly ==
    (decorator.state = "built" /\ wrapper.pc # "idle") =>
        \A i \in 1..NumAttempts :
            LET o == Attempts[i].outcome
            IN  o.kind = "raise" =>
                    IF ResourceConstraint(o)
                    THEN i < decorator.max_tries =>
                            \/ i < NumAttempts
                            \/ wrapper.pc = "loop" /\ wrapper.state.tries_remaining > 0
                    ELSE /\ i = NumAttempts
                         /\ wrapper.pc = "done"
                         /\ wrapper.result = [kind |-> "raise", value |-> Seen(o)]

\* the responses of the attempts up to the i-th that left items unprocessed
RECURSIVE ResponsesUpTo(_)
ResponsesUpTo(i) ==
    IF i = 0 THEN <<>>
    ELSE LET o == Attempts[i].outcome
         IN  IF o.kind = "raise" /\ o.exc.cls = "BatchUnprocessedItemsError"
             THEN Append(ResponsesUpTo(i - 1), o.exc.response)
             ELSE ResponsesUpTo(i - 1)

\* C19: the attempt that follows one that raised BatchUnprocessedItemsError
\* invokes the function with the unprocessed items of the error as its first
\* positional argument and with previous_responses equal to the responses of
\* the earlier failed attempts, in order.
C19_BatchRetryNarrows ==
    \A i \in 1..(NumAttempts - 1) :
        LET o == Attempts[i].outcome
            next == Attempts[i + 1]
        IN  (o.kind = "raise" /\ o.exc.cls = "BatchUnprocessedItemsError") =>
                /\ Len(next.args) >= 1
                /\ next.args[1] = o.exc.unprocessed_items
                /\ "previous_responses" \in DOMAIN next.kwargs
                /\ next.kwargs["previous_responses"] = ResponsesUpTo(i)

----------------------------------------------------------------------------
(* PartitionedDynamoTableBase *)

\* the records of a partition among `records`
PartitionRecords(records, partition_key) == {r \in records : r.pk = Str(partition_key)}

\* C20: after backup_project() and then writes and deletes, restore_project()
\* leaves every partition of the project with exactly the records it had at
\* backup time; restore_partition(k) leaves partition k with the records of
\* its backup and the records of the other partitions as they were.
C20_BackupRestoreRoundTrip ==
    /\ (outcome.kind = "restore_project" /\ atBackup.taken) =>
           /\ ~outcome.raised
           /\ \A i \in DOMAIN partition_names :
                  PartitionRecords(table, partition_names[i])
                      = PartitionRecords(atBackup.table, partition_names[i])
    /\ (outcome.kind = "restore_partition" /\ ~outcome.raised) =>
           /\ atBackup.taken =>
                  PartitionRecords(table, outcome.partition_key)
                      = PartitionRecords(atBackup.table, outcome.partition_key)
           /\ \A i \in DOMAIN partition_names :
                  partition_names[i] # outcome.partition_key =>
                      PartitionRecords(table, partition_names[i])
                          = PartitionRecords(outcome.before, partition_names[i])

----------------------------------------------------------------------------
(* PartitionedDynamoRecord *)

\* C21: sanitize_key_pk called with a partition_manager raises
\* DynamoTableError when the pk value is falsy and a hash column is not
\* defined, returns the computed partition when the value is falsy and all
\* hash columns are defined, and raises DynamoTableError when the value is
\* set and differs from the computed partition.  A partition is computed
\* when the class has hash columns, the record defines them all and the
\* partition manager returns a partition.
C21_SanitizeKeyPk ==
    (sanitize.kind = "sanitize_key_pk" /\ sanitize.partition_manager # PyNone) =>
        LET defined == has_hash_columns(sanitize.self, sanitize.HASH_COLUMNS)
            computed == /\ defined
                        /\ sanitize.HASH_COLUMNS # <<>>
                        /\ sanitize.routed.kind = "return"
        IN  /\ (~Truthy(sanitize.value) /\ ~defined) =>
                   sanitize.result = MethodRaises("DynamoTableError")
            /\ (~Truthy(sanitize.value) /\ computed) =>
                   sanitize.result = MethodReturns(sanitize.routed.value)
            /\ (Truthy(sanitize.value) /\ computed
                   /\ sanitize.value # sanitize.routed.value) =>
                   sanitize.result = MethodRaises("DynamoTableError")

----------------------------------------------------------------------------
(* DatabaseAdapter *)

\* C22: when a setvars() or transaction(isolation_level=...) context is left,
\* normally or by an exception, every variable it set has the value it had
\* just before the context was entered, nested contexts included.
C22_SetvarsRestores ==
    (sql_exit.kind \in {"setvars", "transaction"} /\ sql_exit.how \in {"normal", "exception"}) =>
        \A name \in sql_exit.names : db_vars[name] = sql_exit.before[name]

----------------------------------------------------------------------------
(* no_retry() and no_backoff() *)

\* the classes whose contexts and decorators the behaviours use
UsedClasses == {"RetryAndBackoff", "RetryBackoffReturnNone"}

\* inside a context the flag of its class is False
FlagFalseInside ==
    \A i \in DOMAIN contexts : ~GetFlag(flags, contexts[i].cls, contexts[i].flag)

\* a step that leaves a context leaves the flag of its class with the value
\* it had just before the context was entered
FlagRestored ==
    Len(contexts') < Len(contexts) =>
        LET c == contexts[Len(contexts)]
        IN  GetFlag(flags', c.cls, c.flag) = c.prev

\* outside every context the flags are True
FlagTrueOutside ==
    contexts = <<>> =>
        \A cls \in UsedClasses, flag \in {"__retry__", "__backoff__"} : GetFlag(flags, cls, flag)

\* C23: inside a no_retry() / no_backoff() context the flag of the class is
\* False; when the context is left the flag has the value it had just before
\* the context was entered; and with properly nested contexts the flag is
\* True again after the outermost exit.
C23_ScopedSwitches == []FlagFalseInside /\ [][FlagRestored]_vars /\ []FlagTrueOutside

\* the call was made inside `with RetryAndBackoff.no_retry():`
InsideBaseNoRetry ==
    \E i \in DOMAIN contexts :
        contexts[i].cls = "RetryAndBackoff" /\ contexts[i].flag = "__retry__"

\* C26: inside `with RetryAndBackoff.no_retry():` a function decorated with
\* RetryAndBackoff or a subclass of it is attempted exactly once, whatever
\* no_retry() contexts were entered and left before.
C26_BaseNoRetryCoversSubclasses ==
    (wrapper.pc # "idle" /\ InsideBaseNoRetry) =>
        /\ NumAttempts <= 1
        /\ wrapper.pc = "done" => NumAttempts = 1

----------------------------------------------------------------------------
(* Backoff *)

\* the positions of the attempts among the events
AttemptPositions == SelectSeq([i \in DOMAIN events |-> i], LAMBDA i : events[i].ev = "attempt")

\* the call is made inside a no_backoff() context of the class of the
\* decorator or of a class it derives from
NoBackoffActive ==
    \E i \in DOMAIN contexts :
        /\ contexts[i].flag = "__backoff__"
        /\ \/ contexts[i].cls = decorator.cls
           \/ decorator.cls \in DOMAIN RetryParent /\ contexts[i].cls = RetryParent[decorator.cls]

\* between the k-th attempt and the next: handle_exception once, then one
\* sleep of backoff(k), and no sleep inside no_backoff()
BetweenAttempts ==
    \A k \in 1..(NumAttempts - 1) :
        SubSeq(events, AttemptPositions[k] + 1, AttemptPositions[k + 1] - 1)
            = <<HandleEvent(Seen(Attempts[k].outcome))>>
              \o (IF NoBackoffActive
                  THEN <<>>
                  ELSE <<[ev |-> "sleep", attempt_number |-> k, delay |-> cls_backoff(k)]>>)

\* a sleep is of backoff(k) with k at most max_tries - 1, there is none
\* inside no_backoff(), and one that follows the latest attempt follows its
\* handle_exception, with tries left and not after an exception of
\* exceptions_to_raise
SleepsAllowed ==
    /\ \A i \in DOMAIN events :
          events[i].ev = "sleep" =>
              /\ ~NoBackoffActive
              /\ events[i].attempt_number \in 1..(decorator.max_tries - 1)
              /\ i > 1 /\ events[i - 1].ev = "handle_exception"
    /\ NumAttempts >= 1 =>
          \A i \in (AttemptPositions[NumAttempts] + 1)..Len(events) :
              events[i].ev = "sleep" =>
                  /\ NumAttempts < decorator.max_tries
                  /\ wrapper.state.tries_remaining > 0
                  /\ ~RaisesToRaise(Attempts[NumAttempts].outcome)
                  /\ events[i].attempt_number = NumAttempts

\* C24: between two consecutive attempts of a call the wrapper calls
\* handle_exception once and then sleeps once for backoff(k), k the number of
\* attempts that failed so far; it does not sleep after the last allowed
\* attempt, after an exception of exceptions_to_raise, or inside no_backoff().
C24_BackoffOrdering ==
    (decorator.state = "built" /\ wrapper.pc # "idle") => (BetweenAttempts /\ SleepsAllowed)

----------------------------------------------------------------------------
(* Weight monotonicity *)

\* the partition of router r with the given name
PartNamed(r, name) == CHOOSE q \in PartSet(r) : q.name = name

\* routers r1 and r2 differ only in the weight of partition p, which is
\* positive in r1 and larger in r2
DifferOnlyInWeightOf(r1, r2, p) ==
    /\ NameSet(r1) = NameSet(r2)
    /\ p \in NameSet(r1)
    /\ \A q \in NameSet(r1) \ {p} : PartNamed(r1, q) = PartNamed(r2, q)
    /\ PartNamed(r1, p).seed = PartNamed(r2, p).seed
    /\ PartNamed(r1, p).weight > 0
    /\ PartNamed(r2, p).weight > PartNamed(r1, p).weight

\* C25: if routers r1 and r2 differ only in that partition p has a larger
\* positive weight in r2, a key that r1 routes to p is routed to p by r2, and
\* a key that the two route differently is routed to p by r2.
C25_WeightMonotonicity ==
    \A r1, r2 \in RouterIds :
        (Routed(r1) /\ Routed(r2)) =>
            \A p \in NameSet(r1) :
                DifferOnlyInWeightOf(r1, r2, p) =>
                    /\ (call[r1].kind = "return" /\ call[r1].value = p) =>
                           (call[r2].kind = "return" /\ call[r2].value = p)
                    /\ ~SameOutcome(r1, r2) =>
                           (call[r2].kind = "return" /\ call[r2].value = p)

====
